---- MODULE Spec2Model ----
(***************************************************************************)
(* The delivery-receipt service of src/server.py: authenticated requests   *)
(* append rows to a per-day workbook under FILE_LOCK, /flush hands out the *)
(* oldest snapshot or rotates the daily workbook into a new snapshot, and  *)
(* /delete_file removes snapshots.  Every request is a thread; a thread's  *)
(* steps are the handler's accesses to the shared state (the lock, the     *)
(* file system, the clock).                                                *)
(***************************************************************************)
EXTENDS Integers, Sequences, FiniteSets, TLC

VARIABLES now, apiKey, files, lock, pc, req, loc, ret, nreq

vars == <<now, apiKey, files, lock, pc, req, loc, ret, nreq>>

(* ------------------------------ bounds -------------------------------- *)
\* request threads served at the same time
NumThreads == 2
\* rows appended over a run (each append request carries the next id)
MaxReq == 2
\* last instant of the clock
MaxTime == 1
\* clock instants per calendar day
TicksPerDay == 1

Threads == 1..NumThreads

(* --------------------------- the clock -------------------------------- *)
\* datetime.now().strftime('%Y%m%d')
strftime_day(t) == ToString(t \div TicksPerDay)

\* datetime.now().strftime('%Y%m%d_%H%M%S_%f')
strftime_micro(t) == strftime_day(t) \o "_" \o ToString(t)

(* --------------------------- the folders ------------------------------ *)
PERMANENT_FOLDER == <<"tmp", "saved_files">>
SNAPSHOT_FOLDER == PERMANENT_FOLDER \o <<"snapshots">>
UPLOADS_FOLDER == PERMANENT_FOLDER \o <<"uploads">>

\* A path is a sequence of components.  The kernel resolves ".." against
\* the directory reached so far; every folder named above exists (makedirs).
RECURSIVE resolve(_, _)
resolve(done, rest) ==
    IF rest = <<>> THEN done
    ELSE IF Head(rest) = ".."
         THEN resolve(IF done = <<>> THEN <<>> ELSE SubSeq(done, 1, Len(done) - 1),
                      Tail(rest))
         ELSE resolve(Append(done, Head(rest)), Tail(rest))

\* os.path.join(folder, filename), as the file system resolves it
join(folder, filename) == resolve(<<>>, folder \o filename)

exists(fs, path) == path \in DOMAIN fs

Dir(path) == SubSeq(path, 1, Len(path) - 1)
Base(path) == path[Len(path)]

\* os.listdir(folder)
listdir_nothing(fs, folder) == {}
listdir(fs, folder) == {Base(p) : p \in {q \in DOMAIN fs : Dir(q) = folder}}

\* the file system with `path` (re)written / removed
fs_put(fs, path, file) ==
    [p \in DOMAIN fs \cup {path} |-> IF p = path THEN file ELSE fs[p]]
fs_del_folder(fs, path) == [p \in {q \in DOMAIN fs : Dir(q) # Dir(path)} |-> fs[p]]
fs_del(fs, path) == [p \in DOMAIN fs \ {path} |-> fs[p]]

get_daily_filename(t) == "delivery_requests_" \o strftime_day(t) \o ".xlsx"
get_daily_path_in_snapshots(t) == join(SNAPSHOT_FOLDER, <<get_daily_filename(t)>>)
get_daily_path(t) == join(PERMANENT_FOLDER, <<get_daily_filename(t)>>)
unique_snapshot_name(t) == "delivery_requests_" \o strftime_micro(t) \o ".xlsx"

(* -------------------------- workbooks --------------------------------- *)
\* A file: a workbook (fmt "xlsx": a header row and rows of text cells,
\* "" the empty cell) or bytes no workbook reader accepts (fmt "raw").
Workbook(columns, rows, mtime) ==
    [fmt |-> "xlsx", columns |-> columns, rows |-> rows, mtime |-> mtime, size |-> 0]
RawFile(size, mtime) ==
    [fmt |-> "raw", columns |-> <<>>, rows |-> <<>>, mtime |-> mtime, size |-> size]

NaN == "<NaN>"
Range(s) == {s[i] : i \in 1..Len(s)}

\* pd.DataFrame([row_dict]): one row, the dict's keys in order as columns
DataFrame(keys, row) == [columns |-> keys, rows |-> <<row>>]

\* pd.read_excel(path, converters={"voucher": str}): an empty cell is
\* read as NaN, in the voucher column too (the converter maps it to "",
\* which the NA inference turns into NaN)
read_excel(file) ==
    [columns |-> file.columns,
     rows |-> [i \in 1..Len(file.rows) |->
                 [c \in Range(file.columns) |->
                    IF file.rows[i][c] = "" THEN NaN ELSE file.rows[i][c]]]]

\* pd.concat([a, b], ignore_index=True): union of the columns, a's first,
\* then b's new ones; a cell of a column a frame lacks is NaN
concat_dropping(a, b) == b
concat(a, b) ==
    LET cols == a.columns \o SelectSeq(b.columns, LAMBDA c : c \notin Range(a.columns))
        widen(df) == [i \in 1..Len(df.rows) |->
                        [c \in Range(cols) |->
                           IF c \in Range(df.columns) THEN df.rows[i][c] ELSE NaN]]
    IN [columns |-> cols, rows |-> widen(a) \o widen(b)]

\* df["voucher"] = df["voucher"].astype(str)
astype_str(df) ==
    IF "voucher" \in Range(df.columns)
    THEN [df EXCEPT !.rows =
            [i \in 1..Len(df.rows) |->
               [df.rows[i] EXCEPT !["voucher"] = IF @ = NaN THEN "nan" ELSE @]]]
    ELSE df

\* df.to_excel(writer, index=False): NaN and "" are both left as empty cells
to_excel(df, mtime) ==
    Workbook(df.columns,
             [i \in 1..Len(df.rows) |->
                [c \in Range(df.columns) |->
                   IF df.rows[i][c] = NaN THEN "" ELSE df.rows[i][c]]],
             mtime)

(* ------------------------ requests and replies ------------------------ *)
\* the X-API-Key header of a request: absent, empty, or the text "k"
NoHeader == "<none>"
Headers == {NoHeader, "", "k"}

\* The callers of a run: which keys they present, whether some of them
\* leave out required fields, whether uploads carry a file part, and
\* whether filenames with ".." are tried.
AnyCaller == [keys |-> Headers, invalid |-> TRUE, parts |-> BOOLEAN, dots |-> TRUE]
\* callers that hold the key and send complete requests without file parts
KeyHolder == [keys |-> {"k"}, invalid |-> FALSE, parts |-> {FALSE}, dots |-> TRUE]

\* the bodies sent to an endpoint whose complete body is `good`; a caller
\* without the key is turned away before the body is looked at, so one
\* body stands for theirs
Bodies(c, key, bad, good) ==
    IF key = apiKey /\ apiKey # "" /\ c.invalid THEN bad \cup {good} ELSE {good}

\* the API_KEY of the environment: unset ("") or "k"
ApiKeys == {"", "k"}

authed_anykey(key) == key = apiKey
authed(key) == apiKey # "" /\ key = apiKey

NoReq == [ep |-> "", key |-> NoHeader, body |-> "", id |-> 0, file |-> FALSE,
          filename |-> <<>>]
EmptyDF == [columns |-> <<>>, rows |-> <<>>]
NoLoc == [daily_name |-> "", daily_path |-> <<>>, df_new |-> EmptyDF,
          df_combined |-> EmptyDF, listing |-> {}, oldest |-> "",
          snap_name |-> "", upload_filename |-> "", size |-> 0]
NoRet == [status |-> 0, name |-> "", row_count |-> 0, files |-> <<>>]

Reply(status, name, row_count, flist) ==
    [status |-> status, name |-> name, row_count |-> row_count, files |-> flist]

\* the request's voucher / receipt_code: a numeric-looking text with
\* leading zeros, different for every request
Voucher(id) == "000" \o ToString(id)

\* datetime.utcnow().isoformat() + "Z": the text of the UTC clock, which
\* nothing reads back
utcnow == "T"

SubmitKeys == <<"voucher", "delivery_station", "delivery_date_with_weekday",
                "more_instructions", "created_at", "source">>
UploadKeys == <<"voucher", "delivery_station", "delivery_date_with_weekday",
                "more_instructions", "file_bytes", "upload_filename",
                "created_at", "source">>

\* the row dict of submit(): the four required fields of the JSON body
submit_row(r, t) ==
    [k \in Range(SubmitKeys) |->
       CASE k = "voucher" -> Voucher(r.id)
         [] k = "delivery_station" -> "S"
         [] k = "delivery_date_with_weekday" -> "D"
         [] k = "more_instructions" -> "I"
         [] k = "created_at" -> utcnow
         [] OTHER -> "submit"]

\* the row dict of receipts_json(): the body carries timestamp and
\* receipt_code only, so station and instructions default to ""
receipts_row(r, t) ==
    [k \in Range(SubmitKeys) |->
       CASE k = "voucher" -> Voucher(r.id)
         [] k = "delivery_station" -> ""
         [] k = "delivery_date_with_weekday" -> "D"
         [] k = "more_instructions" -> ""
         [] k = "created_at" -> utcnow
         [] OTHER -> "api/receipts"]

\* the row dict of receipts_upload()
upload_row(r, t, upload_filename, size) ==
    [k \in Range(UploadKeys) |->
       CASE k = "voucher" -> Voucher(r.id)
         [] k = "delivery_station" -> ""
         [] k = "delivery_date_with_weekday" -> "D"
         [] k = "more_instructions" -> ""
         [] k = "file_bytes" -> ToString(size)
         [] k = "upload_filename" -> upload_filename
         [] k = "created_at" -> utcnow
         [] OTHER -> "api/receipts/upload"]

\* submit(): `not data or not all(k in data for k in required)`;
\* body "none" is no JSON object, "partial" lacks more_instructions
submit_missing(body) == body # "full"

\* receipts_json() / receipts_upload(): `not ts or not code`
receipts_missing(body) == body = "none"

\* get_file() / delete_file(): `not filename`
filename_missing(filename) == filename = <<>>

(* ------------------------- steps of a thread -------------------------- *)
Respond(t, r) ==
    /\ ret' = [ret EXCEPT ![t] = r]
    /\ pc' = [pc EXCEPT ![t] = "done"]

Goto(t, label) == pc' = [pc EXCEPT ![t] = label]

NewRequest(t, r) ==
    /\ pc[t] = "idle"
    /\ req' = [req EXCEPT ![t] = r]
    /\ nreq' = IF r.id = 0 THEN nreq ELSE r.id

\* the id of an append request that passes both gates; a request that is
\* turned away carries no id
NextId(ok) == IF ok THEN nreq + 1 ELSE 0

\* with FILE_LOCK: (entering)
acquire_unguarded(t) == lock' = lock
acquire(t) == lock = 0 /\ lock' = t

\* with FILE_LOCK: (leaving, by return or by exception)
release_never(t) == lock' = lock
release(t) == lock' = 0

\* an exception leaves the handler: Flask answers 500
Raise(t) == Respond(t, Reply(500, "", 0, <<>>))

\* ensure_df_and_append(), lines 47-51: the daily name and path and df_new
\* are computed before the lock is taken
append_begin(t, keys, row) ==
    /\ loc' = [loc EXCEPT ![t].daily_name = get_daily_filename(now),
                          ![t].daily_path = get_daily_path(now),
                          ![t].df_new = DataFrame(keys, row)]
    /\ Goto(t, "append_acquire")
    /\ UNCHANGED ret

(* ----------------------- the append endpoints ------------------------- *)
\* POST /submit, lines 111-129: the auth gate, the presence check, then
\* the row dict and the start of ensure_df_and_append()
submit(t, c) ==
    \E key \in c.keys : \E body \in Bodies(c, key, {"none", "partial"}, "full") :
      LET r == [NoReq EXCEPT !.ep = "submit", !.key = key, !.body = body,
                             !.id = NextId(authed(key) /\ ~submit_missing(body))]
      IN /\ r.id <= MaxReq
         /\ NewRequest(t, r)
         /\ IF ~authed(key)
            THEN Respond(t, Reply(401, "", 0, <<>>)) /\ UNCHANGED loc
            ELSE IF submit_missing(body)
            THEN Respond(t, Reply(400, "", 0, <<>>)) /\ UNCHANGED loc
            ELSE append_begin(t, SubmitKeys, submit_row(r, now))
         /\ UNCHANGED <<now, apiKey, files, lock>>

\* POST /api/receipts, lines 228-257
receipts_json(t, c) ==
    \E key \in c.keys : \E body \in Bodies(c, key, {"none"}, "min") :
      LET r == [NoReq EXCEPT !.ep = "receipts_json", !.key = key, !.body = body,
                             !.id = NextId(authed(key) /\ ~receipts_missing(body))]
      IN /\ r.id <= MaxReq
         /\ NewRequest(t, r)
         /\ IF ~authed(key)
            THEN Respond(t, Reply(401, "", 0, <<>>)) /\ UNCHANGED loc
            ELSE IF receipts_missing(body)
            THEN Respond(t, Reply(400, "", 0, <<>>)) /\ UNCHANGED loc
            ELSE append_begin(t, SubmitKeys, receipts_row(r, now))
         /\ UNCHANGED <<now, apiKey, files, lock>>

\* `save_uploaded_file(f, ...) if f else None` runs only past both gates
upload_saves(key, body, file) == authed(key) /\ ~receipts_missing(body) /\ file

\* POST /api/receipts/upload, lines 263-282: with a file part the upload
\* is stored before the row is built
receipts_upload(t, c) ==
    \E key \in c.keys : \E body \in Bodies(c, key, {"none"}, "min"), file \in c.parts :
      LET r == [NoReq EXCEPT !.ep = "receipts_upload", !.key = key,
                             !.body = body, !.file = file,
                             !.id = NextId(authed(key) /\ ~receipts_missing(body))]
      IN /\ r.id <= MaxReq
         /\ NewRequest(t, r)
         /\ IF upload_saves(key, body, file)
            THEN Goto(t, "save_uploaded_file") /\ UNCHANGED <<loc, ret>>
            ELSE IF ~authed(key)
            THEN Respond(t, Reply(401, "", 0, <<>>)) /\ UNCHANGED loc
            ELSE IF receipts_missing(body)
            THEN Respond(t, Reply(400, "", 0, <<>>)) /\ UNCHANGED loc
            ELSE append_begin(t, UploadKeys, upload_row(r, now, "", 0))
         /\ UNCHANGED <<now, apiKey, files, lock>>

\* the size in bytes of an uploaded file part
UploadSize == 5

\* save_uploaded_file(), lines 81-94, then lines 282-293: the part is
\* written as <code>_<timestamp>_<secure name> under UPLOADS_FOLDER
save_uploaded_file(t) ==
    /\ pc[t] = "save_uploaded_file"
    /\ LET final_name == Voucher(req[t].id) \o "_" \o strftime_micro(now) \o "_f.bin"
       IN /\ files' = fs_put(files, join(UPLOADS_FOLDER, <<final_name>>),
                             RawFile(UploadSize, now))
          /\ loc' = [loc EXCEPT
                       ![t].upload_filename = final_name,
                       ![t].size = UploadSize,
                       ![t].daily_name = get_daily_filename(now),
                       ![t].daily_path = get_daily_path(now),
                       ![t].df_new = DataFrame(UploadKeys,
                                        upload_row(req[t], now, final_name, UploadSize))]
    /\ Goto(t, "append_acquire")
    /\ UNCHANGED <<now, apiKey, lock, req, ret, nreq>>

\* ensure_df_and_append(), line 53
append_acquire(t) ==
    /\ pc[t] = "append_acquire"
    /\ acquire(t)
    /\ Goto(t, "append_exists")
    /\ UNCHANGED <<now, apiKey, files, req, loc, ret, nreq>>

\* ensure_df_and_append(), lines 54, 57-62
append_exists(t) ==
    /\ pc[t] = "append_exists"
    /\ IF exists(files, loc[t].daily_path)
       THEN Goto(t, "append_read") /\ UNCHANGED loc
       ELSE /\ loc' = [loc EXCEPT ![t].df_combined = astype_str(loc[t].df_new)]
            /\ Goto(t, "append_write")
    /\ UNCHANGED <<now, apiKey, files, lock, req, ret, nreq>>

\* ensure_df_and_append(), lines 55-56, 60-62: read_excel raises when the
\* file is gone or is no workbook; nothing catches it, the lock is released
append_read(t) ==
    /\ pc[t] = "append_read"
    /\ IF exists(files, loc[t].daily_path) /\ files[loc[t].daily_path].fmt = "xlsx"
       THEN /\ loc' = [loc EXCEPT ![t].df_combined =
                         astype_str(concat(read_excel(files[loc[t].daily_path]),
                                           loc[t].df_new))]
            /\ Goto(t, "append_write")
            /\ UNCHANGED <<lock, ret>>
       ELSE Raise(t) /\ release(t) /\ UNCHANGED loc
    /\ UNCHANGED <<now, apiKey, files, req, nreq>>

\* ensure_df_and_append(), lines 65-72, and the handler's reply
append_write(t) ==
    /\ pc[t] = "append_write"
    /\ files' = fs_put(files, loc[t].daily_path, to_excel(loc[t].df_combined, now))
    /\ release(t)
    /\ Respond(t, Reply(200, loc[t].daily_name, Len(loc[t].df_combined.rows), <<>>))
    /\ UNCHANGED <<now, apiKey, req, loc, nreq>>

\* the reply has been sent; the thread serves the next request
Return(t) ==
    /\ pc[t] = "done"
    /\ pc' = [pc EXCEPT ![t] = "idle"]
    /\ req' = [req EXCEPT ![t] = NoReq]
    /\ loc' = [loc EXCEPT ![t] = NoLoc]
    /\ ret' = [ret EXCEPT ![t] = NoRet]
    /\ UNCHANGED <<now, apiKey, files, lock, nreq>>

\* the process dies while a thread rewrites the daily file in place
\* (lines 65-70 write the workbook over the old one): the file is left
\* truncated, and the restarted process has a fresh lock and no requests
Crash(t) ==
    /\ pc[t] = "append_write"
    /\ files' = fs_put(files, loc[t].daily_path, RawFile(0, now))
    /\ lock' = 0
    /\ pc' = [u \in Threads |-> "idle"]
    /\ req' = [u \in Threads |-> NoReq]
    /\ loc' = [u \in Threads |-> NoLoc]
    /\ ret' = [u \in Threads |-> NoRet]
    /\ UNCHANGED <<now, apiKey, nreq>>

\* the clock advances
Tick ==
    /\ now < MaxTime
    /\ now' = now + 1
    /\ UNCHANGED <<apiKey, files, lock, pc, req, loc, ret, nreq>>

(* ------------------------------ /flush -------------------------------- *)
\* the names sorted(listing, key=getmtime) may put first: the names of
\* smallest modification time (the sort is stable on listdir's order)
fifo_newest(fs, listing) ==
    {n \in listing : \A m \in listing :
        fs[join(SNAPSHOT_FOLDER, <<n>>)].mtime >= fs[join(SNAPSHOT_FOLDER, <<m>>)].mtime}
fifo_oldest_snapshot(fs, listing) ==
    {n \in listing : \A m \in listing :
        fs[join(SNAPSHOT_FOLDER, <<n>>)].mtime <= fs[join(SNAPSHOT_FOLDER, <<m>>)].mtime}

\* os.replace(src, dst): the file keeps its content and modification time
os_replace_copy(fs, src, dst) == fs_put(fs, dst, fs[src])
os_replace(fs, src, dst) == fs_put(fs_del(fs, src), dst, fs[src])

\* GET /flush, lines 146-149: the daily path is computed before the lock
flush(t, c) ==
    \E key \in c.keys :
      /\ NewRequest(t, [NoReq EXCEPT !.ep = "flush", !.key = key])
      /\ IF ~authed(key)
         THEN Respond(t, Reply(401, "", 0, <<>>)) /\ UNCHANGED loc
         ELSE /\ loc' = [loc EXCEPT ![t].daily_path = get_daily_path(now)]
              /\ Goto(t, "flush_acquire")
              /\ UNCHANGED ret
      /\ UNCHANGED <<now, apiKey, files, lock>>

\* line 151
flush_acquire(t) ==
    /\ pc[t] = "flush_acquire"
    /\ acquire(t)
    /\ Goto(t, "flush_listdir")
    /\ UNCHANGED <<now, apiKey, files, req, loc, ret, nreq>>

\* fifo_oldest_snapshot(), line 76 (every name in the folder ends in .xlsx)
flush_listdir(t) ==
    /\ pc[t] = "flush_listdir"
    /\ loc' = [loc EXCEPT ![t].listing = listdir(files, SNAPSHOT_FOLDER)]
    /\ Goto(t, "flush_sort")
    /\ UNCHANGED <<now, apiKey, files, lock, req, ret, nreq>>

\* fifo_oldest_snapshot(), lines 75-79, and line 154: getmtime raises for
\* a listed name that has been removed since
flush_sort(t) ==
    /\ pc[t] = "flush_sort"
    /\ IF \E n \in loc[t].listing : ~exists(files, join(SNAPSHOT_FOLDER, <<n>>))
       THEN Raise(t) /\ release(t) /\ UNCHANGED loc
       ELSE IF loc[t].listing = {}
       THEN Goto(t, "flush_exists") /\ UNCHANGED <<lock, loc, ret>>
       ELSE /\ \E n \in fifo_oldest_snapshot(files, loc[t].listing) :
                 loc' = [loc EXCEPT ![t].oldest = n]
            /\ Goto(t, "flush_send_oldest")
            /\ UNCHANGED <<lock, ret>>
    /\ UNCHANGED <<now, apiKey, files, req, nreq>>

\* lines 155-160: send_file opens the snapshot; it raises when the file
\* has been removed since it was selected
flush_send_oldest(t) ==
    /\ pc[t] = "flush_send_oldest"
    /\ IF exists(files, join(SNAPSHOT_FOLDER, <<loc[t].oldest>>))
       THEN Respond(t, Reply(200, loc[t].oldest, 0, <<>>))
       ELSE Raise(t)
    /\ release(t)
    /\ UNCHANGED <<now, apiKey, files, req, loc, nreq>>

\* line 163, and line 173 when there is nothing to deliver
flush_exists(t) ==
    /\ pc[t] = "flush_exists"
    /\ IF exists(files, loc[t].daily_path)
       THEN Goto(t, "flush_replace") /\ UNCHANGED <<lock, ret>>
       ELSE Respond(t, Reply(404, "", 0, <<>>)) /\ release(t)
    /\ UNCHANGED <<now, apiKey, files, req, loc, nreq>>

\* lines 164-166: os.replace raises when the daily file is gone
flush_replace(t) ==
    /\ pc[t] = "flush_replace"
    /\ IF exists(files, loc[t].daily_path)
       THEN /\ files' = os_replace(files, loc[t].daily_path,
                                   join(SNAPSHOT_FOLDER, <<unique_snapshot_name(now)>>))
            /\ loc' = [loc EXCEPT ![t].snap_name = unique_snapshot_name(now)]
            /\ Goto(t, "flush_send_new")
            /\ UNCHANGED <<lock, ret>>
       ELSE Raise(t) /\ release(t) /\ UNCHANGED <<files, loc>>
    /\ UNCHANGED <<now, apiKey, req, nreq>>

\* lines 167-170
flush_send_new(t) ==
    /\ pc[t] = "flush_send_new"
    /\ IF exists(files, join(SNAPSHOT_FOLDER, <<loc[t].snap_name>>))
       THEN Respond(t, Reply(200, loc[t].snap_name, 0, <<>>))
       ELSE Raise(t)
    /\ release(t)
    /\ UNCHANGED <<now, apiKey, files, req, loc, nreq>>

(* ---------------------- /get_file, /delete_file ------------------------ *)
\* the filename arguments a caller tries: none, a snapshot's name, the
\* name of a file of PERMANENT_FOLDER, that name or an upload's name
\* reached through "..", and a name no file has
Filenames(c, key) ==
    IF ~authed(key) THEN {<<>>}
    ELSE (IF c.invalid THEN {<<>>, <<"nosuch.xlsx">>} ELSE {})
      \cup {<<n>> : n \in listdir(files, SNAPSHOT_FOLDER)}
      \cup {<<n>> : n \in listdir(files, PERMANENT_FOLDER)}
      \cup (IF c.dots
            THEN {<<"..", n>> : n \in listdir(files, PERMANENT_FOLDER)}
                   \cup {<<"..", "uploads", n>> : n \in listdir(files, UPLOADS_FOLDER)}
            ELSE {})

\* GET /get_file, lines 178-183
get_file(t, c) ==
    \E key \in c.keys : \E filename \in Filenames(c, key) :
      /\ NewRequest(t, [NoReq EXCEPT !.ep = "get_file", !.key = key,
                                      !.filename = filename])
      /\ IF ~authed(key)
         THEN Respond(t, Reply(401, "", 0, <<>>))
         ELSE IF filename_missing(filename)
         THEN Respond(t, Reply(400, "", 0, <<>>))
         ELSE Goto(t, "get_file_lookup") /\ UNCHANGED ret
      /\ UNCHANGED <<now, apiKey, files, lock, loc>>

\* lines 185-191
get_file_lookup(t) ==
    /\ pc[t] = "get_file_lookup"
    /\ LET path_snap == join(SNAPSHOT_FOLDER, req[t].filename)
           path_daily == join(PERMANENT_FOLDER, req[t].filename)
       IN IF exists(files, path_snap)
          THEN Respond(t, Reply(200, Base(path_snap), 0, <<>>))
          ELSE IF exists(files, path_daily)
          THEN Respond(t, Reply(200, Base(path_daily), 0, <<>>))
          ELSE Respond(t, Reply(404, "", 0, <<>>))
    /\ UNCHANGED <<now, apiKey, files, lock, req, loc, nreq>>

\* GET /delete_file, lines 196-204
delete_file(t, c) ==
    \E key \in c.keys : \E filename \in Filenames(c, key) :
      /\ NewRequest(t, [NoReq EXCEPT !.ep = "delete_file", !.key = key,
                                      !.filename = filename])
      /\ IF ~authed(key)
         THEN Respond(t, Reply(401, "", 0, <<>>))
         ELSE IF filename_missing(filename)
         THEN Respond(t, Reply(400, "", 0, <<>>))
         ELSE Goto(t, "delete_exists") /\ UNCHANGED ret
      /\ UNCHANGED <<now, apiKey, files, lock, loc>>

\* lines 206, 209-211: no lock is taken
delete_exists(t) ==
    /\ pc[t] = "delete_exists"
    /\ IF exists(files, join(SNAPSHOT_FOLDER, req[t].filename))
       THEN Goto(t, "delete_remove") /\ UNCHANGED ret
       ELSE IF exists(files, join(PERMANENT_FOLDER, req[t].filename))
       THEN Respond(t, Reply(403, "", 0, <<>>))
       ELSE Respond(t, Reply(404, "", 0, <<>>))
    /\ UNCHANGED <<now, apiKey, files, lock, req, loc, nreq>>

\* lines 207-208: os.remove raises when the file is gone
delete_remove(t) ==
    /\ pc[t] = "delete_remove"
    /\ LET path_snap == join(SNAPSHOT_FOLDER, req[t].filename)
       IN IF exists(files, path_snap)
          THEN /\ files' = fs_del(files, path_snap)
               /\ Respond(t, Reply(200, Base(path_snap), 0, <<>>))
          ELSE Raise(t) /\ UNCHANGED files
    /\ UNCHANGED <<now, apiKey, lock, req, loc, nreq>>

(* --------------------------- /list_snapshots --------------------------- *)
\* sorted(listing, key=getmtime): every order of the names that is
\* non-decreasing in modification time
sorted_any(fs, listing) ==
    {s \in [1..Cardinality(listing) -> listing] :
        \A i, j \in DOMAIN s : i # j => s[i] # s[j]}
sorted_by_mtime(fs, listing) ==
    {s \in [1..Cardinality(listing) -> listing] :
        /\ \A i, j \in DOMAIN s : i # j => s[i] # s[j]
        /\ \A i, j \in DOMAIN s :
             i < j => fs[join(SNAPSHOT_FOLDER, <<s[i]>>)].mtime
                        <= fs[join(SNAPSHOT_FOLDER, <<s[j]>>)].mtime}

\* GET /list_snapshots, lines 216-217
list_snapshots(t, c) ==
    \E key \in c.keys :
      /\ NewRequest(t, [NoReq EXCEPT !.ep = "list_snapshots", !.key = key])
      /\ IF ~authed(key)
         THEN Respond(t, Reply(401, "", 0, <<>>))
         ELSE Goto(t, "list_listdir") /\ UNCHANGED ret
      /\ UNCHANGED <<now, apiKey, files, lock, loc>>

\* line 220
list_listdir(t) ==
    /\ pc[t] = "list_listdir"
    /\ loc' = [loc EXCEPT ![t].listing = listdir(files, SNAPSHOT_FOLDER)]
    /\ Goto(t, "list_sort")
    /\ UNCHANGED <<now, apiKey, files, lock, req, ret, nreq>>

\* lines 219-223
list_sort(t) ==
    /\ pc[t] = "list_sort"
    /\ IF \E n \in loc[t].listing : ~exists(files, join(SNAPSHOT_FOLDER, <<n>>))
       THEN Raise(t)
       ELSE \E s \in sorted_by_mtime(files, loc[t].listing) :
               Respond(t, Reply(200, "", 0, s))
    /\ UNCHANGED <<now, apiKey, files, lock, req, loc, nreq>>

\* snapshots left in SNAPSHOT_FOLDER by an earlier run of the service
LeftoverSnapshots ==
    LET wb(v, m) == Workbook(<<"voucher">>, <<[k \in {"voucher"} |-> v]>>, m)
    IN [p \in {join(SNAPSHOT_FOLDER, <<"delivery_requests_old_a.xlsx">>),
               join(SNAPSHOT_FOLDER, <<"delivery_requests_old_b.xlsx">>)} |->
          IF Base(p) = "delivery_requests_old_a.xlsx" THEN wb("a", -1) ELSE wb("b", -2)]

NoFiles == [p \in {} |-> RawFile(0, 0)]

Init ==
    /\ now = 0
    /\ apiKey \in ApiKeys
    /\ files \in {NoFiles, LeftoverSnapshots}
    /\ lock = 0
    /\ pc = [t \in Threads |-> "idle"]
    /\ req = [t \in Threads |-> NoReq]
    /\ loc = [t \in Threads |-> NoLoc]
    /\ ret = [t \in Threads |-> NoRet]
    /\ nreq = 0

AppendStep(t, c) ==
    \/ submit(t, c)
    \/ receipts_json(t, c)
    \/ receipts_upload(t, c)
    \/ save_uploaded_file(t)
    \/ append_acquire(t)
    \/ append_exists(t)
    \/ append_read(t)
    \/ append_write(t)
    \/ Return(t)

FlushStep(t, c) ==
    \/ flush(t, c)
    \/ flush_acquire(t)
    \/ flush_listdir(t)
    \/ flush_sort(t)
    \/ flush_send_oldest(t)
    \/ flush_exists(t)
    \/ flush_replace(t)
    \/ flush_send_new(t)

DeleteStep(t, c) ==
    \/ delete_file(t, c)
    \/ delete_exists(t)
    \/ delete_remove(t)

ReadStep(t, c) ==
    \/ get_file(t, c)
    \/ get_file_lookup(t)
    \/ list_snapshots(t, c)
    \/ list_listdir(t)
    \/ list_sort(t)

\* requests are served one at a time, by one thread; the process may die
\* and restart
Worker == CHOOSE t \in Threads : TRUE
NextSeq ==
    \/ AppendStep(Worker, AnyCaller)
    \/ FlushStep(Worker, AnyCaller)
    \/ DeleteStep(Worker, AnyCaller)
    \/ ReadStep(Worker, AnyCaller)
    \/ Crash(Worker)
    \/ Tick
SpecSeq == Init /\ [][NextSeq]_vars

\* only the three append endpoints are called, all at one instant
NextAppends == \E t \in Threads : AppendStep(t, AnyCaller)
SpecAppends == Init /\ [][NextAppends]_vars

\* key holders' requests are served concurrently
Next ==
    \/ \E t \in Threads : submit(t, KeyHolder)
    \/ \E t \in Threads : append_acquire(t)
    \/ \E t \in Threads : append_exists(t)
    \/ \E t \in Threads : append_read(t)
    \/ \E t \in Threads : append_write(t)
    \/ \E t \in Threads : Return(t)
    \/ \E t \in Threads : FlushStep(t, KeyHolder)
    \/ \E t \in Threads : DeleteStep(t, KeyHolder)
    \/ Tick
Spec == Init /\ [][Next]_vars

(* ------------------- a producer and a polling consumer ----------------- *)
\* One thread serves the producer's submits, another the consumer, who
\* polls /flush and answers every snapshot it is handed by asking
\* /delete_file for that name.
Producer == Worker
Consumer == CHOOSE t \in Threads : t # Producer

\* GET /delete_file, lines 196-204, called with the name the consumer's
\* flush has just delivered and with the same key
delete_received(t) ==
    /\ pc[t] = "done"
    /\ req[t].ep = "flush"
    /\ ret[t].status = 200
    /\ req' = [req EXCEPT ![t] = [NoReq EXCEPT !.ep = "delete_file",
                                                !.key = req[t].key,
                                                !.filename = <<ret[t].name>>]]
    /\ loc' = [loc EXCEPT ![t] = NoLoc]
    /\ ret' = [ret EXCEPT ![t] = NoRet]
    /\ Goto(t, "delete_exists")
    /\ UNCHANGED <<now, apiKey, files, lock, nreq>>

\* the consumer goes back to polling after any other reply
poll_again(t) ==
    /\ ~(req[t].ep = "flush" /\ ret[t].status = 200)
    /\ Return(t)

ProducerRun ==
    \/ append_acquire(Producer)
    \/ append_exists(Producer)
    \/ append_read(Producer)
    \/ append_write(Producer)
    \/ Return(Producer)

ConsumerRun ==
    \/ FlushStep(Consumer, KeyHolder)
    \/ delete_received(Consumer)
    \/ delete_exists(Consumer)
    \/ delete_remove(Consumer)
    \/ poll_again(Consumer)

NextLive ==
    \/ submit(Producer, KeyHolder)
    \/ ProducerRun
    \/ ConsumerRun
    \/ Tick

\* every thread that can take a step is scheduled; the consumer never
\* stops polling
SpecLive ==
    /\ Init
    /\ [][NextLive]_vars
    /\ WF_vars(ProducerRun)
    /\ WF_vars(ConsumerRun)

\* the service starts on folders that makedirs has just created
InitEmpty == Init /\ files = NoFiles
SpecEmpty == InitEmpty /\ [][Next]_vars

\* key holders who name files plainly, without ".."
PlainKeyHolder == [KeyHolder EXCEPT !.dots = FALSE]
NextPlain ==
    \/ \E t \in Threads : submit(t, PlainKeyHolder)
    \/ \E t \in Threads : append_acquire(t)
    \/ \E t \in Threads : append_exists(t)
    \/ \E t \in Threads : append_read(t)
    \/ \E t \in Threads : append_write(t)
    \/ \E t \in Threads : Return(t)
    \/ \E t \in Threads : FlushStep(t, PlainKeyHolder)
    \/ \E t \in Threads : DeleteStep(t, PlainKeyHolder)
    \/ Tick
SpecPlain == Init /\ [][NextPlain]_vars

(* ----------------------- fair thread scheduling ----------------------- *)
\* the steps of a request that wait for nothing
ThreadRun(t) ==
    \/ append_exists(t) \/ append_read(t) \/ append_write(t)
    \/ flush_listdir(t) \/ flush_sort(t) \/ flush_send_oldest(t)
    \/ flush_exists(t) \/ flush_replace(t) \/ flush_send_new(t)
    \/ delete_exists(t) \/ delete_remove(t)
    \/ Return(t)

\* entering `with FILE_LOCK`
Enter(t) == append_acquire(t) \/ flush_acquire(t)

\* concurrent key holders under a fair scheduler: a thread that can run
\* does run, and a thread waiting for the lock gets it if the lock keeps
\* becoming free
SpecFair ==
    /\ Init
    /\ [][Next]_vars
    /\ \A t \in Threads : WF_vars(ThreadRun(t)) /\ SF_vars(Enter(t))

(* ======================== the claims, checked ========================= *)
SnapshotPaths(fs) == {p \in DOMAIN fs : Dir(p) = SNAPSHOT_FOLDER}
IsAppend(r) == r.ep \in {"submit", "receipts_json", "receipts_upload"}
Vouchers(fs, path) ==
    IF exists(fs, path)
    THEN [i \in 1..Len(fs[path].rows) |-> fs[path].rows[i]["voucher"]]
    ELSE <<>>
InCriticalSection(t) ==
    pc[t] \in {"append_exists", "append_read", "append_write", "flush_listdir",
               "flush_sort", "flush_send_oldest", "flush_exists", "flush_replace",
               "flush_send_new"}
AppendInFlight(t) ==
    pc[t] \in {"save_uploaded_file", "append_acquire", "append_exists",
               "append_read", "append_write"}

(* ---- C1 ---- *)
C1_Rows == Vouchers(files, get_daily_path(now))
C1_Inv ==
    /\ Len(C1_Rows) = nreq - Cardinality({t \in Threads : AppendInFlight(t)})
    /\ \A i, j \in 1..Len(C1_Rows) : i # j => C1_Rows[i] # C1_Rows[j]
    /\ \A t \in Threads :
         (pc[t] = "done" /\ req[t].id # 0) =>
            /\ ret[t].status = 200
            /\ ret[t].row_count \in 1..Len(C1_Rows)
            /\ C1_Rows[ret[t].row_count] = Voucher(req[t].id)
    /\ \A t, u \in Threads :
         (pc[t] = "done" /\ pc[u] = "done" /\ req[t].id # 0 /\ req[u].id # 0 /\ t # u)
            => ret[t].row_count # ret[u].row_count
    /\ Cardinality({t \in Threads : InCriticalSection(t)}) <= 1
C1_Step ==
    LET old == C1_Rows
        new == Vouchers(files', get_daily_path(now))
    IN /\ Len(old) <= Len(new)
       /\ Len(new) <= Len(old) + 1
       /\ SubSeq(new, 1, Len(old)) = old
\* C1: with only append requests on one day, the daily file holds exactly
\* one row per finished append and none twice, a finished request's row
\* sits at the row_count it was given, no two requests get the same
\* row_count, at most one request is inside the lock, and every step
\* keeps the rows already there and adds at most one at the end: the
\* rows are in the order in which the requests went through the lock.
C1_AppendsSerialized == []C1_Inv /\ [][C1_Step]_vars
\* two requests have finished, and the one issued second got row 1
C1_Witness ==
    \E t, u \in Threads :
      /\ pc[t] = "done" /\ pc[u] = "done"
      /\ req[t].id = 2 /\ req[u].id = 1
      /\ ret[t].row_count = 1 /\ ret[u].row_count = 2
      /\ Len(C1_Rows) = 2

(* ---- C2 ---- *)
\* C2: a thread about to write the daily file, to rotate it or to remove
\* a snapshot holds FILE_LOCK, and no removal is in progress while another
\* thread is inside flush's locked block.
C2_MutationsHoldLock ==
    /\ \A t \in Threads :
         pc[t] \in {"append_write", "flush_replace", "delete_remove"} => lock = t
    /\ \A t, u \in Threads :
         ~(pc[t] = "delete_remove" /\ InCriticalSection(u))

(* ---- C3 ---- *)
C3_Inv ==
    \A t \in Threads :
      (pc[t] = "done" /\ req[t].ep = "flush" /\ authed(req[t].key)
         /\ SnapshotPaths(files) # {}) =>
        /\ ret[t].status = 200
        /\ exists(files, join(SNAPSHOT_FOLDER, <<ret[t].name>>))
        /\ \A p \in SnapshotPaths(files) :
             files[join(SNAPSHOT_FOLDER, <<ret[t].name>>)].mtime <= files[p].mtime
C3_Step ==
    \A t \in Threads :
      (req[t].ep = "flush" /\ pc'[t] # pc[t] /\ SnapshotPaths(files) # {})
         => files' = files
\* C3: served alone, a flush that ends while snapshots exist has
\* delivered a snapshot of smallest modification time, and no step of a
\* flush taken while snapshots exist changes any file, so the next flush
\* finds the same files and delivers the same snapshot.
C3_FlushOldestUnchanged == []C3_Inv /\ [][C3_Step]_vars
\* a flush has delivered the older of the two leftover snapshots
C3_Witness ==
    \E t \in Threads :
      /\ pc[t] = "done" /\ req[t].ep = "flush"
      /\ ret[t].name = "delivery_requests_old_b.xlsx"
      /\ Cardinality(SnapshotPaths(files)) = 2

(* ---- C4 ---- *)
C4_Inv ==
    \A t \in Threads :
      (pc[t] = "done" /\ req[t].ep = "flush" /\ loc[t].snap_name # "") =>
        /\ ret[t].status = 200
        /\ ret[t].name = loc[t].snap_name
        /\ SnapshotPaths(files) = {join(SNAPSHOT_FOLDER, <<ret[t].name>>)}
        /\ ~exists(files, loc[t].daily_path)
        /\ ~exists(files, get_daily_path(now))
C4_Step ==
    \A t \in Threads :
      (pc[t] = "flush_exists" /\ pc'[t] # pc[t] /\ exists(files, loc[t].daily_path)) =>
         pc'[t] = "flush_replace"
C4_Rotate ==
    \A t \in Threads :
      (pc[t] = "flush_replace" /\ pc'[t] # pc[t]) =>
        /\ SnapshotPaths(files) = {}
        /\ \E p \in SnapshotPaths(files') :
             /\ SnapshotPaths(files') = {p}
             /\ files'[p] = files[loc[t].daily_path]
             /\ DOMAIN files' = (DOMAIN files \ {loc[t].daily_path}) \cup {p}
             /\ \A q \in DOMAIN files' \ {p} : files'[q] = files[q]
\* C4: served alone, a flush that finds no snapshot and finds its daily
\* file rotates it: the step leaves exactly one snapshot, which is the
\* daily file as it was (rows, columns, modification time), removes the
\* daily path and touches no other file; the flush then delivers that
\* snapshot, and no daily file exists for its day or for today.
C4_FlushRotates == []C4_Inv /\ [][C4_Step /\ C4_Rotate]_vars
\* a flush has rotated a daily file of two rows and delivered it
C4_Witness ==
    \E t \in Threads :
      /\ pc[t] = "done" /\ req[t].ep = "flush" /\ loc[t].snap_name # ""
      /\ exists(files, join(SNAPSHOT_FOLDER, <<ret[t].name>>))
      /\ Len(files[join(SNAPSHOT_FOLDER, <<ret[t].name>>)].rows) = 2

(* ---- C5 ---- *)
C5_AfterRotation ==
    \A t \in Threads :
      (pc[t] = "flush_replace" /\ pc'[t] = "flush_send_new") =>
         ~exists(files', loc[t].daily_path)
C5_FreshFile ==
    \A t \in Threads :
      (pc[t] = "append_write" /\ pc'[t] = "done" /\ ~exists(files, loc[t].daily_path)) =>
        /\ ret'[t].row_count = 1
        /\ Vouchers(files', loc[t].daily_path) = <<Voucher(req[t].id)>>
C5_SnapshotsKept ==
    \A t \in Threads :
      (IsAppend(req'[t]) /\ pc'[t] # pc[t]) =>
         \A p \in SnapshotPaths(files) : exists(files', p) /\ files'[p] = files[p]
\* C5: a rotation leaves no file at the daily path; an append that finds
\* no file at its daily path writes a file holding its one row and
\* returns row_count 1; and no step of an append request changes or
\* removes a file of the snapshot folder.
C5_FreshAfterRotation == [][C5_AfterRotation /\ C5_FreshFile /\ C5_SnapshotsKept]_vars
\* an append has returned row_count 1 while a rotated snapshot of its
\* day's earlier file exists
C5_Witness ==
    \E t \in Threads :
      /\ pc[t] = "done" /\ IsAppend(req[t]) /\ ret[t].status = 200
      /\ ret[t].row_count = 1
      /\ req[t].id = 2
      /\ \E p \in SnapshotPaths(files) : Vouchers(files, p) = <<Voucher(1)>>

(* ---- C6 ---- *)
C6_Plain(t) == req[t].ep = "delete_file" /\ Len(req[t].filename) = 1
C6_Snapshot ==
    \A t \in Threads :
      (C6_Plain(t) /\ pc[t] = "delete_exists" /\ pc'[t] # pc[t]
         /\ exists(files, SNAPSHOT_FOLDER \o req[t].filename)) =>
           pc'[t] = "delete_remove" /\ files' = files
C6_Remove ==
    \A t \in Threads :
      (C6_Plain(t) /\ pc[t] = "delete_remove" /\ pc'[t] # pc[t]) =>
        /\ ret'[t].status = 200
        /\ DOMAIN files' = DOMAIN files \ {SNAPSHOT_FOLDER \o req[t].filename}
        /\ \A p \in DOMAIN files' : files'[p] = files[p]
C6_Daily ==
    \A t \in Threads :
      (C6_Plain(t) /\ pc[t] = "delete_exists" /\ pc'[t] # pc[t]
         /\ \E d \in 0..MaxTime : /\ req[t].filename = <<get_daily_filename(d)>>
                                  /\ exists(files, get_daily_path(d))) =>
        /\ pc'[t] = "done"
        /\ ret'[t].status = 403
        /\ files' = files
\* C6: served alone, a delete_file given the name of a file of the
\* snapshot folder goes on to remove it, and its removal takes away that
\* one file and leaves every other file as it was; a delete_file given
\* the name of an existing daily file answers 403 and changes no file.
C6_DeleteExactlySnapshot == [][C6_Snapshot /\ C6_Remove /\ C6_Daily]_vars
\* a delete_file has removed one of two snapshots, a daily file exists
C6_Witness ==
    \E t \in Threads :
      /\ pc[t] = "done" /\ req[t].ep = "delete_file" /\ ret[t].status = 200
      /\ Cardinality(SnapshotPaths(files)) = 1
      /\ exists(files, get_daily_path(now))
\* a delete_file given the daily file's name has answered 403
C6_WitnessRefused ==
    \E t \in Threads :
      /\ pc[t] = "done" /\ req[t].ep = "delete_file" /\ ret[t].status = 403

(* ---- C7 ---- *)
\* C7: whatever filename delete_file is given, the file its removal
\* takes away lies in the snapshot folder.
C7_DeleteOnlySnapshots ==
    [][\A t \in Threads :
         (pc[t] = "delete_remove" /\ pc'[t] # pc[t]) =>
            \A p \in DOMAIN files \ DOMAIN files' : Dir(p) = SNAPSHOT_FOLDER]_vars

(* ---- C8 ---- *)
\* the requests the service is to turn away: no API_KEY configured or a
\* key that is not it (401); a required field or the filename missing (400)
C8_Unauthorized(r) == apiKey = "" \/ r.key # apiKey
C8_Invalid(r) ==
    \/ r.ep = "submit" /\ r.body # "full"
    \/ r.ep \in {"receipts_json", "receipts_upload"} /\ r.body = "none"
    \/ r.ep \in {"get_file", "delete_file"} /\ r.filename = <<>>
C8_Step ==
    \A t \in Threads :
      (req'[t] # NoReq /\ pc'[t] # pc[t]
         /\ (C8_Unauthorized(req'[t]) \/ C8_Invalid(req'[t]))) =>
        /\ files' = files
        /\ pc'[t] = "done"
        /\ ret'[t].status = IF C8_Unauthorized(req'[t]) THEN 401 ELSE 400
\* C8: every step of a request that lacks the configured key, or that
\* lacks a required field or the filename, leaves every file as it was
\* and ends the request with 401, respectively 400.
C8_RejectedChangesNothing == [][C8_Step]_vars
\* an upload with a file part but no receipt code was answered 400 while
\* the uploads folder holds an earlier upload
C8_Witness ==
    \E t \in Threads :
      /\ pc[t] = "done" /\ req[t].ep = "receipts_upload" /\ req[t].file
      /\ ret[t].status = 400
      /\ listdir(files, UPLOADS_FOLDER) # {}

(* ---- C9 ---- *)
\* C9: an append request that passed both gates ends with 200, and its
\* daily file is then a workbook holding the request's row last, also
\* when the file it found could not be parsed.
C9_AppendSurvivesUnparsable ==
    \A t \in Threads :
      (pc[t] = "done" /\ req[t].id # 0) =>
        /\ ret[t].status = 200
        /\ exists(files, loc[t].daily_path)
        /\ files[loc[t].daily_path].fmt = "xlsx"
        /\ ret[t].row_count = Len(files[loc[t].daily_path].rows)

(* ---- C10 ---- *)
\* C10: the columns of a daily file are one list, whichever endpoints
\* appended to it: a later append never changes the columns the file has.
C10_FixedColumns ==
    [][\A p \in DOMAIN files \cap DOMAIN files' :
         (Dir(p) = PERMANENT_FOLDER /\ files[p].fmt = "xlsx" /\ files'[p].fmt = "xlsx")
            => files'[p].columns = files[p].columns]_vars

(* ---- C11 ---- *)
\* C11: under any interleaving with submits and delete_files, the step
\* that ends an authorized flush answers 200 with a snapshot that exists
\* at that moment (the selected oldest one or the one just rotated), or
\* answers 404 having changed no file; it never answers 500.
C11_FlushNeverFails ==
    [][\A t \in Threads :
         (req[t].ep = "flush" /\ authed(req[t].key) /\ pc[t] # "done" /\ pc'[t] = "done") =>
            \/ /\ ret'[t].status = 200
               /\ ret'[t].name \in {loc[t].oldest, loc[t].snap_name}
               /\ exists(files', join(SNAPSHOT_FOLDER, <<ret'[t].name>>))
            \/ /\ ret'[t].status = 404
               /\ files' = files]_vars

(* ---- C12 ---- *)
Days == 0..(MaxTime \div TicksPerDay)
\* C12: with a consumer that keeps polling flush and deletes every
\* snapshot it receives, a daily file of any day, once it exists, is
\* eventually gone from the daily path (rotated into a snapshot), also
\* when its day has ended before the consumer's next flush.
C12_EveryDailyFileRotated ==
    \A d \in Days :
       exists(files, get_daily_path(d)) ~> ~exists(files, get_daily_path(d))

(* ---- C13 ---- *)
\* the instant at which this run rotated a snapshot, read off its name
Rotated(name) == \E r \in 0..MaxTime : unique_snapshot_name(r) = name
RotationTime(name) == CHOOSE r \in 0..MaxTime : unique_snapshot_name(r) = name
C13_Mtime(fs, name) == fs[join(SNAPSHOT_FOLDER, <<name>>)].mtime
C13_List ==
    \A t \in Threads :
      (pc[t] = "list_sort" /\ pc'[t] = "done" /\ ret'[t].status = 200) =>
        LET s == ret'[t].files
            here == listdir(files, SNAPSHOT_FOLDER)
        IN /\ Range(s) = here
           /\ Len(s) = Cardinality(here)
           /\ \A i, j \in 1..Len(s) :
                i < j => /\ C13_Mtime(files, s[i]) <= C13_Mtime(files, s[j])
                         /\ (Rotated(s[i]) /\ Rotated(s[j]))
                               => RotationTime(s[i]) <= RotationTime(s[j])
           /\ s # <<>> => fifo_oldest_snapshot(files, here) = {s[1]}
C13_NewLast ==
    \A t \in Threads :
      (pc[t] = "flush_replace" /\ pc'[t] = "flush_send_new") =>
        \A s \in sorted_by_mtime(files', listdir(files', SNAPSHOT_FOLDER)) :
           s[Len(s)] = loc'[t].snap_name
\* C13: served alone, a list_snapshots reply names every snapshot once,
\* in non-decreasing order of modification time and, for snapshots this
\* run rotated, of rotation time; its first name is the one snapshot flush
\* selects in that state; and a snapshot just rotated is last in every
\* such order.
C13_ListInFifoOrder == [][C13_List /\ C13_NewLast]_vars
\* a list_snapshots reply names the two leftover snapshots, older first
C13_Witness ==
    \E t \in Threads :
      /\ pc[t] = "done" /\ req[t].ep = "list_snapshots"
      /\ ret[t].files = <<"delivery_requests_old_b.xlsx", "delivery_requests_old_a.xlsx">>
\* a list_snapshots reply names a snapshot this run has rotated
C13_WitnessRotated ==
    \E t \in Threads :
      /\ pc[t] = "done" /\ req[t].ep = "list_snapshots"
      /\ Len(ret[t].files) = 1 /\ Rotated(ret[t].files[1])

(* ---- C14 ---- *)
C14_Waiting(t) == pc[t] \in {"append_acquire", "flush_acquire"}
C14_Held == lock = 0 \/ InCriticalSection(lock)
C14_Exit ==
    \A t \in Threads :
      (InCriticalSection(t) /\ ~InCriticalSection(t)') => (lock = t /\ lock' = 0)
C15_Inv == Cardinality(SnapshotPaths(files)) <= 1
C15_Step ==
    \A t \in Threads :
      (pc[t] = "flush_replace" /\ pc'[t] = "flush_send_new") =>
        /\ SnapshotPaths(files) = {}
        /\ Cardinality(SnapshotPaths(files')) = 1
\* C15: started on an empty snapshot folder, the service never holds more
\* than one snapshot, under any interleaving of submits, flushes and
\* delete_files: a rotation happens only while the folder is empty, so it
\* adds the only snapshot and overwrites none.
C15_AtMostOneSnapshot == []C15_Inv /\ [][C15_Step]_vars
\* a flush has delivered the one existing snapshot instead of rotating
\* the daily file that exists beside it
C15_Witness ==
    \E t \in Threads :
      /\ pc[t] = "done" /\ req[t].ep = "flush" /\ ret[t].status = 200
      /\ loc[t].oldest # "" /\ ret[t].name = loc[t].oldest
      /\ exists(files, get_daily_path(now))
      /\ Cardinality(SnapshotPaths(files)) = 1

(* ---- C16 ---- *)
\* the workbooks that hold records: daily files and snapshots
StorePaths(fs) ==
    {p \in DOMAIN fs : Dir(p) \in {PERMANENT_FOLDER, SNAPSHOT_FOLDER} /\ fs[p].fmt = "xlsx"}
\* the places (file, row) at which the record of voucher v is stored
Occ(fs, v) ==
    {o \in UNION {{p} \X (1..Len(fs[p].rows)) : p \in StorePaths(fs)} :
        fs[o[1]].rows[o[2]]["voucher"] = v}
C16_Writes(t, id) == pc[t] = "append_write" /\ pc'[t] = "done" /\ req[t].id = id
C16_Removes(t) == pc[t] = "delete_remove" /\ pc'[t] # pc[t]
C16_Inv == \A id \in 1..MaxReq : Cardinality(Occ(files, Voucher(id))) <= 1
C16_Step ==
    \A id \in 1..MaxReq :
      LET before == Occ(files, Voucher(id))
          after == Occ(files', Voucher(id))
      IN IF \E t \in Threads : C16_Writes(t, id)
         THEN before = {} /\ Cardinality(after) = 1
         ELSE IF \E t \in Threads : C16_Removes(t)
         THEN /\ Cardinality(after) <= Cardinality(before)
              /\ \A o \in before : exists(files', o[1]) => Cardinality(after) = 1
              /\ \A o \in before : ~exists(files', o[1]) => Dir(o[1]) = SNAPSHOT_FOLDER
         ELSE Cardinality(after) = Cardinality(before)
C17_WritesTodaysFile ==
    [][\A t \in Threads :
         (pc[t] = "append_acquire" /\ pc'[t] = "append_exists") =>
            loc[t].daily_path = get_daily_path(now)]_vars

====
